---- MODULE Spec2Model ----
(***************************************************************************)
(* Model of the variable-debug-web-server (src/main.go): an HTTP server    *)
(* whose handlers register themselves in Server.pendingRequests, send      *)
(* their headers and block on a per-request channel until the goroutine    *)
(* waitForEnter, which reads operator lines from stdin, drains the list    *)
(* and closes every drained channel.                                       *)
(*                                                                         *)
(* One handler goroutine per request id; one waitForEnter goroutine.       *)
(* Every Go statement that touches shared state is one step, so that the   *)
(* mutex (and not the grain of the model) is what makes the critical       *)
(* sections atomic.                                                        *)
(***************************************************************************)
EXTENDS Integers, Sequences, FiniteSets, TLC

\* Number of inbound requests (handler goroutines) of a run.
NumRequests == 2
\* Number of operator lines stdin can deliver before it stays silent.
MaxLines == 2

\* Largest reading of the clock; the clock counts in units of 1/TicksPerSecond s.
MaxClock == 2
\* Clock units in one second, the resolution of time.RFC3339 (main.go:103).
TicksPerSecond == 2

Requests == 1..NumRequests

VARIABLES
    \* ---- Server (main.go:48-52)
    mu,               \* sync.Mutex: 0 free, h held by handler h, -1 held by waitForEnter
    pendingRequests,  \* []*pendingRequest, as a sequence of request ids
    requestCounter,   \* int
    \* ---- pendingRequest.responseChan (main.go:42,66): TRUE once closed
    responseChan,
    \* ---- handleRequest goroutine of request h
    hpc,              \* position of the handler
    requestNum,       \* local requestNum (main.go:76)
    pendingCount,     \* local pendingCount (main.go:77)
    headers,          \* "none", "written" (WriteHeader, buffered), "flushed"
    body,             \* "none", "written", "failed" (write to a gone client)
    connected,        \* the client of h is still connected
    \* ---- waitForEnter goroutine
    tpc,              \* position of the release loop
    batch,            \* local pendingRequests (main.go:115)
    count,            \* local count (main.go:116)
    idx,              \* position of the range loop (main.go:128)
    report,           \* what the current iteration printed
    stdin,            \* "open" or "closed" (EOF seen by scanner.Scan)
    lines,            \* operator lines consumed so far
    panicked,         \* the process died of a close of a closed channel
    \* ---- history, written but never read by the program's steps
    drains,           \* drain critical sections completed so far
    regDrains,        \* value of drains when h was appended
    regClosed,        \* stdin was already closed when h was appended
    drainedBy,        \* number of the line whose drain removed h (0: none)
    firedBy,          \* number of the line whose loop closed h's channel (0: none)
    drainCount,       \* how many times h was taken out of pendingRequests
    \* ---- time: what time.Now() returns, and the values read from it
    clock,            \* the process's clock, non-decreasing
    requestTime,      \* local requestTime / pendingRequest.requestTime (main.go:61,65)
    responseTime,     \* local responseTime (main.go:96)
    timestamp,        \* the "timestamp" of the body, in whole seconds (main.go:103)
    regTime,          \* history: reading of the clock when h was appended
    drainTime         \* history: reading of the clock when h was drained

serverVars  == <<mu, pendingRequests, requestCounter, responseChan>>
handlerVars == <<hpc, requestNum, pendingCount, headers, body, connected>>
triggerVars == <<tpc, batch, count, idx, report, stdin, lines, panicked>>
historyVars == <<drains, regDrains, regClosed, drainedBy, firedBy, drainCount>>
timeVars    == <<clock, requestTime, responseTime, timestamp, regTime, drainTime>>
vars == <<serverVars, handlerVars, triggerVars, historyVars, timeVars>>

Range(s) == {s[i] : i \in 1..Len(s)}

\* NewServer (main.go:54-58) and main (main.go:134-156): empty registry,
\* counter zero, waitForEnter started and about to call scanner.Scan.
Init ==
    /\ mu = 0
    /\ pendingRequests = <<>>
    /\ requestCounter = 0
    /\ responseChan = [h \in Requests |-> FALSE]
    /\ hpc = [h \in Requests |-> "idle"]
    /\ requestNum = [h \in Requests |-> 0]
    /\ pendingCount = [h \in Requests |-> 0]
    /\ headers = [h \in Requests |-> "none"]
    /\ body = [h \in Requests |-> "none"]
    /\ connected = [h \in Requests |-> TRUE]
    /\ tpc = "scan"
    /\ batch = <<>>
    /\ count = 0
    /\ idx = 0
    /\ report = "none"
    /\ stdin = "open"
    /\ lines = 0
    /\ panicked = FALSE
    /\ drains = 0
    /\ regDrains = [h \in Requests |-> 0]
    /\ regClosed = [h \in Requests |-> FALSE]
    /\ drainedBy = [h \in Requests |-> 0]
    /\ firedBy = [h \in Requests |-> 0]
    /\ drainCount = [h \in Requests |-> 0]
    /\ clock = 0
    /\ requestTime = [h \in Requests |-> 0]
    /\ responseTime = [h \in Requests |-> 0]
    /\ timestamp = [h \in Requests |-> 0]
    /\ regTime = [h \in Requests |-> 0]
    /\ drainTime = [h \in Requests |-> 0]

\* main.go:103: time.Now().UTC().Format(time.RFC3339) keeps whole seconds
\* and drops the fraction; the value is the number of whole seconds of t.
RFC3339(t) == t \div TicksPerSecond

\* The instant a formatted timestamp of s whole seconds denotes, in clock units.
InstantOf(s) == s * TicksPerSecond

(***************************************************************************)
(* handleRequest (main.go:60-108)                                          *)
(***************************************************************************)

\* main.go:61-70: the request arrives, requestTime is read, req is built with
\* a fresh open channel.
Arrive(h) ==
    /\ ~panicked
    /\ hpc[h] = "idle"
    /\ hpc' = [hpc EXCEPT ![h] = "lock"]
    /\ UNCHANGED <<serverVars, requestNum, pendingCount, headers, body, connected,
                   triggerVars, historyVars>>
    /\ requestTime' = [requestTime EXCEPT ![h] = clock]
    /\ UNCHANGED <<clock, responseTime, timestamp, regTime, drainTime>>

\* A handler that takes the lock without waiting for it to be free.
HLockNoWait(h) ==
    /\ ~panicked
    /\ hpc[h] = "lock"
    /\ mu' = h
    /\ hpc' = [hpc EXCEPT ![h] = "append"]
    /\ UNCHANGED <<pendingRequests, requestCounter, responseChan, requestNum,
                   pendingCount, headers, body, connected, triggerVars, historyVars>>
    /\ UNCHANGED timeVars

\* main.go:73: s.mu.Lock()
HLock(h) ==
    /\ ~panicked
    /\ hpc[h] = "lock"
    /\ mu = 0
    /\ mu' = h
    /\ hpc' = [hpc EXCEPT ![h] = "append"]
    /\ UNCHANGED <<pendingRequests, requestCounter, responseChan, requestNum,
                   pendingCount, headers, body, connected, triggerVars, historyVars>>
    /\ UNCHANGED timeVars

\* A handler that puts its entry at the front of the registry.
HAppendFront(h) ==
    /\ ~panicked
    /\ hpc[h] = "append"
    /\ pendingRequests' = <<h>> \o pendingRequests
    /\ hpc' = [hpc EXCEPT ![h] = "incr"]
    /\ regDrains' = [regDrains EXCEPT ![h] = drains]
    /\ regClosed' = [regClosed EXCEPT ![h] = (stdin = "closed")]
    /\ UNCHANGED <<mu, requestCounter, responseChan, requestNum, pendingCount,
                   headers, body, connected, triggerVars,
                   drains, drainedBy, firedBy, drainCount>>
    /\ regTime' = [regTime EXCEPT ![h] = clock]
    /\ UNCHANGED <<clock, requestTime, responseTime, timestamp, drainTime>>

\* main.go:74: s.pendingRequests = append(s.pendingRequests, req)
HAppend(h) ==
    /\ ~panicked
    /\ hpc[h] = "append"
    /\ pendingRequests' = Append(pendingRequests, h)
    /\ hpc' = [hpc EXCEPT ![h] = "incr"]
    /\ regDrains' = [regDrains EXCEPT ![h] = drains]
    /\ regClosed' = [regClosed EXCEPT ![h] = (stdin = "closed")]
    /\ UNCHANGED <<mu, requestCounter, responseChan, requestNum, pendingCount,
                   headers, body, connected, triggerVars,
                   drains, drainedBy, firedBy, drainCount>>
    /\ regTime' = [regTime EXCEPT ![h] = clock]
    /\ UNCHANGED <<clock, requestTime, responseTime, timestamp, drainTime>>

\* main.go:75: s.requestCounter++
HIncr(h) ==
    /\ ~panicked
    /\ hpc[h] = "incr"
    /\ requestCounter' = requestCounter + 1
    /\ hpc' = [hpc EXCEPT ![h] = "readnum"]
    /\ UNCHANGED <<mu, pendingRequests, responseChan, requestNum, pendingCount,
                   headers, body, connected, triggerVars, historyVars>>
    /\ UNCHANGED timeVars

\* A handler that numbers itself by the length of the registry.
HReadNumFromLen(h) ==
    /\ ~panicked
    /\ hpc[h] = "readnum"
    /\ requestNum' = [requestNum EXCEPT ![h] = Len(pendingRequests)]
    /\ hpc' = [hpc EXCEPT ![h] = "count"]
    /\ UNCHANGED <<serverVars, pendingCount, headers, body, connected,
                   triggerVars, historyVars>>
    /\ UNCHANGED timeVars

\* main.go:76: requestNum := s.requestCounter
HReadNum(h) ==
    /\ ~panicked
    /\ hpc[h] = "readnum"
    /\ requestNum' = [requestNum EXCEPT ![h] = requestCounter]
    /\ hpc' = [hpc EXCEPT ![h] = "count"]
    /\ UNCHANGED <<serverVars, pendingCount, headers, body, connected,
                   triggerVars, historyVars>>
    /\ UNCHANGED timeVars

\* A handler that takes the request counter for the pending count.
HCountFromCounter(h) ==
    /\ ~panicked
    /\ hpc[h] = "count"
    /\ pendingCount' = [pendingCount EXCEPT ![h] = requestCounter]
    /\ hpc' = [hpc EXCEPT ![h] = "unlock"]
    /\ UNCHANGED <<serverVars, requestNum, headers, body, connected,
                   triggerVars, historyVars>>
    /\ UNCHANGED timeVars

\* main.go:77: pendingCount := len(s.pendingRequests)
HCount(h) ==
    /\ ~panicked
    /\ hpc[h] = "count"
    /\ pendingCount' = [pendingCount EXCEPT ![h] = Len(pendingRequests)]
    /\ hpc' = [hpc EXCEPT ![h] = "unlock"]
    /\ UNCHANGED <<serverVars, requestNum, headers, body, connected,
                   triggerVars, historyVars>>
    /\ UNCHANGED timeVars

\* A handler that leaves the registration without releasing the lock.
HUnlockForgets(h) ==
    /\ ~panicked
    /\ hpc[h] = "unlock"
    /\ hpc' = [hpc EXCEPT ![h] = "headers"]
    /\ UNCHANGED <<serverVars, requestNum, pendingCount, headers, body, connected,
                   triggerVars, historyVars, timeVars>>

\* main.go:78: s.mu.Unlock()
HUnlock(h) ==
    /\ ~panicked
    /\ hpc[h] = "unlock"
    /\ mu' = 0
    /\ hpc' = [hpc EXCEPT ![h] = "headers"]
    /\ UNCHANGED <<pendingRequests, requestCounter, responseChan, requestNum,
                   pendingCount, headers, body, connected, triggerVars, historyVars>>
    /\ UNCHANGED timeVars

\* main.go:80-86: the arrival log lines, Content-Type, WriteHeader(200).
HWriteHeader(h) ==
    /\ ~panicked
    /\ hpc[h] = "headers"
    /\ headers' = [headers EXCEPT ![h] = "written"]
    /\ hpc' = [hpc EXCEPT ![h] = "flush"]
    /\ UNCHANGED <<serverVars, requestNum, pendingCount, body, connected,
                   triggerVars, historyVars>>
    /\ UNCHANGED timeVars

\* A handler that goes on to wait without flushing its headers.
HNoFlush(h) ==
    /\ ~panicked
    /\ hpc[h] = "flush"
    /\ hpc' = [hpc EXCEPT ![h] = "wait"]
    /\ UNCHANGED <<serverVars, requestNum, pendingCount, headers, body, connected,
                   triggerVars, historyVars>>
    /\ UNCHANGED timeVars

\* main.go:88-91: flusher.Flush()
HFlush(h) ==
    /\ ~panicked
    /\ hpc[h] = "flush"
    /\ headers' = [headers EXCEPT ![h] = "flushed"]
    /\ hpc' = [hpc EXCEPT ![h] = "wait"]
    /\ UNCHANGED <<serverVars, requestNum, pendingCount, body, connected,
                   triggerVars, historyVars>>
    /\ UNCHANGED timeVars

\* A handler whose receive returns although the channel is still open.
HWaitNoBlock(h) ==
    /\ ~panicked
    /\ hpc[h] = "wait"
    /\ hpc' = [hpc EXCEPT ![h] = "body"]
    /\ UNCHANGED <<serverVars, requestNum, pendingCount, headers, body, connected,
                   triggerVars, historyVars>>
    /\ responseTime' = [responseTime EXCEPT ![h] = clock]
    /\ UNCHANGED <<clock, requestTime, timestamp, regTime, drainTime>>

\* main.go:94-100: <-req.responseChan returns once the channel is closed;
\* the handler reads responseTime and prints the release log line with the
\* wait duration.
HWait(h) ==
    /\ ~panicked
    /\ hpc[h] = "wait"
    /\ responseChan[h]
    /\ hpc' = [hpc EXCEPT ![h] = "body"]
    /\ UNCHANGED <<serverVars, requestNum, pendingCount, headers, body, connected,
                   triggerVars, historyVars>>
    /\ responseTime' = [responseTime EXCEPT ![h] = clock]
    /\ UNCHANGED <<clock, requestTime, timestamp, regTime, drainTime>>

\* A handler that formats the arrival time instead of the current time.
HWriteBodyStaleTime(h) ==
    /\ ~panicked
    /\ hpc[h] = "body"
    /\ body' = [body EXCEPT ![h] = IF connected[h] THEN "written" ELSE "failed"]
    /\ hpc' = [hpc EXCEPT ![h] = "done"]
    /\ UNCHANGED <<serverVars, requestNum, pendingCount, headers, connected,
                   triggerVars, historyVars>>
    /\ timestamp' = [timestamp EXCEPT ![h] = RFC3339(requestTime[h])]
    /\ UNCHANGED <<clock, requestTime, responseTime, regTime, drainTime>>

\* main.go:102-107: the timestamp is read and formatted, then
\* json.NewEncoder(w).Encode(response); the error of a write to a client
\* that went away is dropped, and the handler returns.
HWriteBody(h) ==
    /\ ~panicked
    /\ hpc[h] = "body"
    /\ body' = [body EXCEPT ![h] = IF connected[h] THEN "written" ELSE "failed"]
    /\ hpc' = [hpc EXCEPT ![h] = "done"]
    /\ UNCHANGED <<serverVars, requestNum, pendingCount, headers, connected,
                   triggerVars, historyVars>>
    /\ timestamp' = [timestamp EXCEPT ![h] = RFC3339(clock)]
    /\ UNCHANGED <<clock, requestTime, responseTime, regTime, drainTime>>

\* A server that cleans up on disconnect: the entry leaves the registry and
\* the handler returns.
DisconnectRemoves(h) ==
    /\ ~panicked
    /\ hpc[h] \in {"wait", "body"}
    /\ connected[h]
    /\ connected' = [connected EXCEPT ![h] = FALSE]
    /\ pendingRequests' = SelectSeq(pendingRequests, LAMBDA x : x # h)
    /\ hpc' = [hpc EXCEPT ![h] = "done"]
    /\ UNCHANGED <<mu, requestCounter, responseChan, requestNum, pendingCount,
                   headers, body, triggerVars, historyVars>>
    /\ UNCHANGED timeVars

\* The client of a held request goes away; nothing in handleRequest observes
\* it (main.go:60-108 never reads r.Context()), the only step that depends
\* on it is the body write.  A client that leaves before its handler waits
\* is seen by no step before that write either, so the departure is taken
\* from the wait on.
Disconnect(h) ==
    /\ ~panicked
    /\ hpc[h] \in {"wait", "body"}
    /\ connected[h]
    /\ connected' = [connected EXCEPT ![h] = FALSE]
    /\ UNCHANGED <<serverVars, hpc, requestNum, pendingCount, headers, body,
                   triggerVars, historyVars>>
    /\ UNCHANGED timeVars

(***************************************************************************)
(* waitForEnter (main.go:110-132)                                          *)
(***************************************************************************)

\* main.go:112: scanner.Scan() returns true, one operator line was read.
Scan ==
    /\ ~panicked
    /\ tpc = "scan"
    /\ stdin = "open"
    /\ lines < MaxLines
    /\ lines' = lines + 1
    /\ report' = "none"
    /\ tpc' = "lock"
    /\ UNCHANGED <<serverVars, handlerVars, batch, count, idx, stdin, panicked,
                   historyVars>>
    /\ UNCHANGED timeVars

\* A loop that treats the end of input as one more line.
ScanEOFGoesOn ==
    /\ ~panicked
    /\ tpc = "scan"
    /\ stdin = "open"
    /\ stdin' = "closed"
    /\ lines' = lines + 1
    /\ report' = "none"
    /\ tpc' = "lock"
    /\ UNCHANGED <<serverVars, handlerVars, batch, count, idx, panicked,
                   historyVars>>
    /\ UNCHANGED timeVars

\* main.go:112: scanner.Scan() returns false (stdin closed), the loop and
\* the goroutine end.
ScanEOF ==
    /\ ~panicked
    /\ tpc = "scan"
    /\ stdin = "open"
    /\ stdin' = "closed"
    /\ tpc' = "exited"
    /\ UNCHANGED <<serverVars, handlerVars, batch, count, idx, report, lines,
                   panicked, historyVars>>
    /\ UNCHANGED timeVars

\* A release loop that enters its critical section without waiting for the
\* lock to be free.
TLockNoWait ==
    /\ ~panicked
    /\ tpc = "lock"
    /\ mu' = -1
    /\ tpc' = "read"
    /\ UNCHANGED <<pendingRequests, requestCounter, responseChan, handlerVars,
                   batch, count, idx, report, stdin, lines, panicked, historyVars>>
    /\ UNCHANGED timeVars

\* main.go:114: s.mu.Lock()
TLock ==
    /\ ~panicked
    /\ tpc = "lock"
    /\ mu = 0
    /\ mu' = -1
    /\ tpc' = "read"
    /\ UNCHANGED <<pendingRequests, requestCounter, responseChan, handlerVars,
                   batch, count, idx, report, stdin, lines, panicked, historyVars>>
    /\ UNCHANGED timeVars

\* main.go:115-116: pendingRequests := s.pendingRequests; count := len(...)
TRead ==
    /\ ~panicked
    /\ tpc = "read"
    /\ batch' = pendingRequests
    /\ count' = Len(pendingRequests)
    /\ tpc' = "reset"
    /\ UNCHANGED <<serverVars, handlerVars, idx, report, stdin, lines, panicked,
                   historyVars>>
    /\ UNCHANGED timeVars

\* A drain that forgets to empty the registry.
TNoReset ==
    /\ ~panicked
    /\ tpc = "reset"
    /\ tpc' = "unlock"
    /\ drains' = drains + 1
    /\ drainedBy' = [h \in Requests |->
                        IF h \in Range(batch) THEN lines ELSE drainedBy[h]]
    /\ drainCount' = [h \in Requests |->
                        IF h \in Range(batch) THEN drainCount[h] + 1
                        ELSE drainCount[h]]
    /\ UNCHANGED <<serverVars, handlerVars, batch, count, idx, report, stdin,
                   lines, panicked, regDrains, regClosed, firedBy>>
    /\ drainTime' = [h \in Requests |->
                        IF h \in Range(batch) THEN clock ELSE drainTime[h]]
    /\ UNCHANGED <<clock, requestTime, responseTime, timestamp, regTime>>

\* main.go:117: s.pendingRequests = make([]*pendingRequest, 0)
TReset ==
    /\ ~panicked
    /\ tpc = "reset"
    /\ pendingRequests' = <<>>
    /\ tpc' = "unlock"
    /\ drains' = drains + 1
    /\ drainedBy' = [h \in Requests |->
                        IF h \in Range(batch) THEN lines ELSE drainedBy[h]]
    /\ drainCount' = [h \in Requests |->
                        IF h \in Range(batch) THEN drainCount[h] + 1
                        ELSE drainCount[h]]
    /\ UNCHANGED <<mu, requestCounter, responseChan, handlerVars, batch, count,
                   idx, report, stdin, lines, panicked, regDrains, regClosed,
                   firedBy>>
    /\ drainTime' = [h \in Requests |->
                        IF h \in Range(batch) THEN clock ELSE drainTime[h]]
    /\ UNCHANGED <<clock, requestTime, responseTime, timestamp, regTime>>

\* main.go:118: s.mu.Unlock()
TUnlock ==
    /\ ~panicked
    /\ tpc = "unlock"
    /\ mu' = 0
    /\ tpc' = "check"
    /\ UNCHANGED <<pendingRequests, requestCounter, responseChan, handlerVars,
                   batch, count, idx, report, stdin, lines, panicked, historyVars>>
    /\ UNCHANGED timeVars

\* A loop without the empty case: it announces a release of zero requests.
TCheckNoEmptyCase ==
    /\ ~panicked
    /\ tpc = "check"
    /\ report' = "Releasing"
    /\ IF count = 0
       THEN /\ tpc' = "scan"
            /\ batch' = <<>>
            /\ count' = 0
            /\ idx' = 0
       ELSE /\ tpc' = "close"
            /\ idx' = 1
            /\ UNCHANGED <<batch, count>>
    /\ UNCHANGED <<serverVars, handlerVars, stdin, lines, panicked, historyVars>>
    /\ UNCHANGED timeVars

\* A range loop that starts one position too far.
TCheckSkipFirst ==
    /\ ~panicked
    /\ tpc = "check"
    /\ IF count = 0
       THEN /\ report' = "No pending requests"
            /\ tpc' = "scan"
            /\ batch' = <<>>
            /\ count' = 0
            /\ idx' = 0
       ELSE /\ report' = "Releasing"
            /\ IF count >= 2
               THEN /\ tpc' = "close"
                    /\ idx' = 2
                    /\ UNCHANGED <<batch, count>>
               ELSE /\ tpc' = "scan"
                    /\ batch' = <<>>
                    /\ count' = 0
                    /\ idx' = 0
    /\ UNCHANGED <<serverVars, handlerVars, stdin, lines, panicked, historyVars>>
    /\ UNCHANGED timeVars

\* main.go:120-125: "No pending requests" and continue, or the
\* "Releasing %d pending request(s)..." line and on to the range loop.
\* The locals pendingRequests and count live for one iteration of the for
\* loop: a continue (or the end of the range loop) drops them.
TCheck ==
    /\ ~panicked
    /\ tpc = "check"
    /\ IF count = 0
       THEN /\ report' = "No pending requests"
            /\ tpc' = "scan"
            /\ batch' = <<>>
            /\ count' = 0
            /\ idx' = 0
       ELSE /\ report' = "Releasing"
            /\ tpc' = "close"
            /\ idx' = 1
            /\ UNCHANGED <<batch, count>>
    /\ UNCHANGED <<serverVars, handlerVars, stdin, lines, panicked, historyVars>>
    /\ UNCHANGED timeVars

\* A range loop that walks the batch from its end.
TCloseReverse ==
    /\ ~panicked
    /\ tpc = "close"
    /\ idx <= Len(batch)
    /\ IF responseChan[batch[Len(batch) + 1 - idx]]
       THEN /\ panicked' = TRUE
            /\ UNCHANGED <<responseChan, firedBy, idx, tpc, batch, count>>
       ELSE /\ responseChan' = [responseChan EXCEPT ![batch[Len(batch) + 1 - idx]] = TRUE]
            /\ firedBy' = [firedBy EXCEPT ![batch[Len(batch) + 1 - idx]] = lines]
            /\ UNCHANGED panicked
            /\ IF idx + 1 > Len(batch)
               THEN /\ tpc' = "scan"
                    /\ batch' = <<>>
                    /\ count' = 0
                    /\ idx' = 0
               ELSE /\ tpc' = "close"
                    /\ idx' = idx + 1
                    /\ UNCHANGED <<batch, count>>
    /\ UNCHANGED <<mu, pendingRequests, requestCounter, handlerVars,
                   report, stdin, lines, drains, regDrains, regClosed, drainedBy,
                   drainCount>>
    /\ UNCHANGED timeVars

\* A signal that reaches only a handler that is already waiting (a send
\* that does not block, instead of a close).
TCloseLostWakeup ==
    /\ ~panicked
    /\ tpc = "close"
    /\ idx <= Len(batch)
    /\ IF responseChan[batch[idx]]
       THEN /\ panicked' = TRUE
            /\ UNCHANGED <<responseChan, firedBy, idx, tpc, batch, count>>
       ELSE /\ responseChan' = [responseChan EXCEPT ![batch[idx]] = (hpc[batch[idx]] = "wait")]
            /\ firedBy' = [firedBy EXCEPT ![batch[idx]] = lines]
            /\ UNCHANGED panicked
            /\ IF idx + 1 > Len(batch)
               THEN /\ tpc' = "scan"
                    /\ batch' = <<>>
                    /\ count' = 0
                    /\ idx' = 0
               ELSE /\ tpc' = "close"
                    /\ idx' = idx + 1
                    /\ UNCHANGED <<batch, count>>
    /\ UNCHANGED <<mu, pendingRequests, requestCounter, handlerVars,
                   report, stdin, lines, drains, regDrains, regClosed, drainedBy,
                   drainCount>>
    /\ UNCHANGED timeVars

\* A range loop that leaves after its first close.
TCloseStopsEarly ==
    /\ ~panicked
    /\ tpc = "close"
    /\ idx <= Len(batch)
    /\ IF responseChan[batch[idx]]
       THEN /\ panicked' = TRUE
            /\ UNCHANGED <<responseChan, firedBy, idx, tpc, batch, count>>
       ELSE /\ responseChan' = [responseChan EXCEPT ![batch[idx]] = TRUE]
            /\ firedBy' = [firedBy EXCEPT ![batch[idx]] = lines]
            /\ UNCHANGED panicked
            /\ tpc' = "scan"
            /\ batch' = <<>>
            /\ count' = 0
            /\ idx' = 0
    /\ UNCHANGED <<mu, pendingRequests, requestCounter, handlerVars,
                   report, stdin, lines, drains, regDrains, regClosed, drainedBy,
                   drainCount>>
    /\ UNCHANGED timeVars

\* A range loop that closes the channel of the first entry every time.
TCloseAlwaysFirst ==
    /\ ~panicked
    /\ tpc = "close"
    /\ idx <= Len(batch)
    /\ IF responseChan[batch[1]]
       THEN /\ panicked' = TRUE
            /\ UNCHANGED <<responseChan, firedBy, idx, tpc, batch, count>>
       ELSE /\ responseChan' = [responseChan EXCEPT ![batch[1]] = TRUE]
            /\ firedBy' = [firedBy EXCEPT ![batch[1]] = lines]
            /\ UNCHANGED panicked
            /\ IF idx + 1 > Len(batch)
               THEN /\ tpc' = "scan"
                    /\ batch' = <<>>
                    /\ count' = 0
                    /\ idx' = 0
               ELSE /\ tpc' = "close"
                    /\ idx' = idx + 1
                    /\ UNCHANGED <<batch, count>>
    /\ UNCHANGED <<mu, pendingRequests, requestCounter, handlerVars,
                   report, stdin, lines, drains, regDrains, regClosed, drainedBy,
                   drainCount>>
    /\ UNCHANGED timeVars

\* main.go:128-130: one iteration of the range loop, close(req.responseChan);
\* closing a closed channel panics and takes the process down.  After the
\* last entry the iteration of the for loop ends, its locals are dropped and
\* the loop is back at scanner.Scan.
TClose ==
    /\ ~panicked
    /\ tpc = "close"
    /\ idx <= Len(batch)
    /\ IF responseChan[batch[idx]]
       THEN /\ panicked' = TRUE
            /\ UNCHANGED <<responseChan, firedBy, idx, tpc, batch, count>>
       ELSE /\ responseChan' = [responseChan EXCEPT ![batch[idx]] = TRUE]
            /\ firedBy' = [firedBy EXCEPT ![batch[idx]] = lines]
            /\ UNCHANGED panicked
            /\ IF idx + 1 > Len(batch)
               THEN /\ tpc' = "scan"
                    /\ batch' = <<>>
                    /\ count' = 0
                    /\ idx' = 0
               ELSE /\ tpc' = "close"
                    /\ idx' = idx + 1
                    /\ UNCHANGED <<batch, count>>
    /\ UNCHANGED <<mu, pendingRequests, requestCounter, handlerVars,
                   report, stdin, lines, drains, regDrains, regClosed, drainedBy,
                   drainCount>>
    /\ UNCHANGED timeVars

Next ==
    \/ \E h \in Requests : Arrive(h)
    \/ \E h \in Requests : HLock(h)
    \/ \E h \in Requests : HAppend(h)
    \/ \E h \in Requests : HIncr(h)
    \/ \E h \in Requests : HReadNum(h)
    \/ \E h \in Requests : HCount(h)
    \/ \E h \in Requests : HUnlock(h)
    \/ \E h \in Requests : HWriteHeader(h)
    \/ \E h \in Requests : HFlush(h)
    \/ \E h \in Requests : HWait(h)
    \/ \E h \in Requests : HWriteBody(h)
    \/ \E h \in Requests : Disconnect(h)
    \/ Scan
    \/ ScanEOF
    \/ TLock
    \/ TRead
    \/ TReset
    \/ TUnlock
    \/ TCheck
    \/ TClose

Spec == Init /\ [][Next]_vars

\* The steps of the goroutine of handleRequest for request h, and those of
\* the goroutine of waitForEnter, leaving out what the environment does (a
\* request arriving, a client leaving, the operator typing a line or
\* closing stdin).
HandlerStep(h) ==
    \/ HLock(h) \/ HAppend(h) \/ HIncr(h) \/ HReadNum(h) \/ HCount(h)
    \/ HUnlock(h) \/ HWriteHeader(h) \/ HFlush(h) \/ HWait(h) \/ HWriteBody(h)

TriggerStep == TLock \/ TRead \/ TReset \/ TUnlock \/ TCheck \/ TClose

\* The Go scheduler runs every runnable goroutine: a goroutine that can take
\* a step eventually takes it (a goroutine has at most one step to take).
\* The environment is under no obligation.
Fairness ==
    /\ \A h \in Requests : WF_vars(HandlerStep(h))
    /\ WF_vars(TriggerStep)

FairSpec == Spec /\ Fairness

\* A clock that is stepped: its next reading is any other value.
TickJumps ==
    /\ ~panicked
    /\ \E t \in 0..MaxClock : t # clock /\ clock' = t
    /\ UNCHANGED <<serverVars, handlerVars, triggerVars, historyVars,
                   requestTime, responseTime, timestamp, regTime, drainTime>>

\* Time passes: the clock the calls of time.Now() read moves on.
Tick ==
    /\ ~panicked
    /\ clock < MaxClock
    /\ clock' = clock + 1
    /\ UNCHANGED <<serverVars, handlerVars, triggerVars, historyVars,
                   requestTime, responseTime, timestamp, regTime, drainTime>>

NextClock == Next \/ Tick

\* The program with time passing; in Spec every reading of the clock is 0.
ClockSpec == Init /\ [][NextClock]_vars

(***************************************************************************)
(* Vocabulary of the properties                                            *)
(***************************************************************************)

\* h has been appended to the registry (it is past main.go:74).
Registered(h) == hpc[h] \notin {"idle", "lock", "append"}

\* h has been handed its sequence number (it is past main.go:76).
Numbered == {h \in Requests : hpc[h] \notin {"idle", "lock", "append", "incr", "readnum"}}

InPending(h) == h \in Range(pendingRequests)

\* Number of positions of the sequence s that hold h.
Occurrences(s, h) == Cardinality({i \in 1..Len(s) : s[i] = h})

\* The part of the batch the range loop has still to close.
Unfired == IF tpc = "close" THEN SubSeq(batch, idx, Len(batch)) ELSE <<>>

(***************************************************************************)
(* C1: under every interleaving of registrations and release events, the   *)
(* sequence numbers handed out so far to k handlers are exactly 1..k (no   *)
(* duplicate, no gap), and requestCounter never decreases.                 *)
(***************************************************************************)
C1_Numbers == {requestNum[h] : h \in Numbered} = 1..Cardinality(Numbered)

C1_SequenceNumbers ==
    /\ []C1_Numbers
    /\ [][requestCounter' >= requestCounter]_vars

\* Every handler has its number and one of them registered after a drain.
C1_Witness ==
    /\ Numbered = Requests
    /\ \E h \in Requests : regDrains[h] >= 1

(***************************************************************************)
(* C2: at the end of the drain critical section of line n the registry is  *)
(* empty and the batch holds exactly the requests registered since the     *)
(* previous drain, each once; a signal fired by line n belongs to a        *)
(* request of that batch, and when the iteration is over every request of  *)
(* the batch has been signalled; a request registered after the drain is   *)
(* still pending, unsignalled and blocked.                                 *)
(***************************************************************************)
C2_Drain ==
    /\ tpc = "unlock" => pendingRequests = <<>>
    /\ tpc \in {"unlock", "check", "close"} =>
          /\ Range(batch) = {h \in Requests : Registered(h) /\ regDrains[h] = drains - 1}
          /\ \A h \in Range(batch) : Occurrences(batch, h) = 1
          /\ count = Len(batch)
          /\ \A h \in Range(batch) : drainedBy[h] = lines
    /\ \A h \in Requests :
          firedBy[h] > 0 => /\ drainedBy[h] = firedBy[h]
                            /\ regDrains[h] < firedBy[h]
                            /\ Registered(h)
    /\ (tpc = "scan" /\ report = "Releasing") =>
          \A h \in Requests : firedBy[h] = lines <=> drainedBy[h] = lines
    /\ \A h \in Requests :
          (Registered(h) /\ regDrains[h] = drains) =>
              /\ InPending(h)
              /\ ~responseChan[h]
              /\ firedBy[h] = 0
              /\ hpc[h] \notin {"body", "done"}

\* The loop is closing the channels of a batch while a request that
\* registered after that drain sits in the registry.
C2_Witness ==
    /\ tpc = "close"
    /\ Len(batch) >= 1
    /\ \E h \in Requests : Registered(h) /\ regDrains[h] = drains /\ InPending(h)

(***************************************************************************)
(* C3: no channel is closed twice, so the panic of a second close is       *)
(* unreachable: a request is taken out of the registry at most once, it    *)
(* stands at most once among the entries still to be closed, and a closed  *)
(* channel belongs to no entry that is pending or still to be closed; h's  *)
(* channel is the one h waits on and it is closed by one loop iteration.   *)
(***************************************************************************)
C3_CloseOnce ==
    /\ ~panicked
    /\ \A h \in Requests :
          /\ drainCount[h] <= 1
          /\ Occurrences(pendingRequests, h) + Occurrences(Unfired, h) <= 1
          /\ responseChan[h] => /\ ~InPending(h)
                                /\ h \notin Range(Unfired)
                                /\ firedBy[h] \in 1..lines
          /\ ~responseChan[h] => firedBy[h] = 0

\* Two channels closed, by two different lines.
C3_Witness ==
    \E g, h \in Requests : firedBy[g] = 1 /\ firedBy[h] = 2

(***************************************************************************)
(* C4: a handler that is past its wait or has written its body has its     *)
(* headers flushed, its request was removed from the registry by the drain *)
(* of a line received after its registration, and that line's loop closed  *)
(* its channel; no body is written for a request still in the registry.    *)
(***************************************************************************)
C4_BodyAfterRelease ==
    \A h \in Requests :
        (body[h] # "none" \/ hpc[h] \in {"body", "done"}) =>
            /\ headers[h] = "flushed"
            /\ responseChan[h]
            /\ ~InPending(h)
            /\ drainedBy[h] \in 1..lines
            /\ firedBy[h] = drainedBy[h]
            /\ regDrains[h] < drainedBy[h]

\* A body has reached a connected client.
C4_Witness == \E h \in Requests : body[h] = "written" /\ hpc[h] = "done"

(***************************************************************************)
(* C5: under fair scheduling of the handlers and of the release loop,      *)
(* every request that is in the registry when the loop has consumed a line *)
(* and goes for the lock eventually has its body write performed, woken by *)
(* the signal of that same line; no later line is needed.                  *)
(*                                                                         *)
(* Stated with the drain count: an entry of the registry was registered    *)
(* after the latest drain; when a line has been consumed the drain of that *)
(* line is still to come, and it is done when the loop is back at Scan.    *)
(* So the requests pending when the line was consumed are among those      *)
(* registered before the latest drain once the loop is back at Scan, and   *)
(* a state is reached where each of them is done, its body write           *)
(* performed, signalled by the first line after its registration.          *)
(***************************************************************************)
C5_Released(h) ==
    /\ hpc[h] = "done"
    /\ body[h] # "none"
    /\ firedBy[h] = regDrains[h] + 1

C5_ReleasedByOneLine ==
    /\ [](/\ \A h \in Requests : InPending(h) => Registered(h) /\ regDrains[h] = drains
          /\ tpc = "lock" => drains = lines - 1
          /\ tpc \in {"scan", "exited"} => drains = lines)
    /\ (tpc = "lock")
          ~> (/\ tpc \in {"scan", "exited"}
              /\ \A h \in Requests :
                    (Registered(h) /\ regDrains[h] < drains) => C5_Released(h))

\* Two requests that were pending together are both done, released by the
\* first line, and no second line was typed.
C5_Witness ==
    /\ lines = 1
    /\ \E g, h \in Requests :
          /\ g # h
          /\ firedBy[g] = 1 /\ hpc[g] = "done" /\ body[g] # "none"
          /\ firedBy[h] = 1 /\ hpc[h] = "done" /\ body[h] # "none"

(***************************************************************************)
(* C6: an iteration of the release loop that finds the registry empty      *)
(* changes neither pendingRequests nor requestCounter nor any channel in   *)
(* any of its steps, prints "No pending requests" and goes back to         *)
(* scanner.Scan; no request is drained or signalled by that line.          *)
(***************************************************************************)
C6_EmptyIteration ==
    /\ tpc \in {"reset", "unlock", "check"} /\ count = 0

C6_TriggerStep == tpc' # tpc \/ idx' # idx

C6_EmptyRelease ==
    /\ [](report = "No pending requests" =>
            /\ tpc \in {"scan", "exited"}
            /\ \A h \in Requests : firedBy[h] # lines /\ drainedBy[h] # lines)
    /\ [][(C6_EmptyIteration /\ C6_TriggerStep) =>
            /\ pendingRequests' = pendingRequests
            /\ requestCounter' = requestCounter
            /\ responseChan' = responseChan
            /\ firedBy' = firedBy
            /\ (tpc = "check" => report' = "No pending requests" /\ tpc' = "scan")]_vars

\* The loop reported an empty release and waits for the next line, after
\* requests had been registered.
C6_Witness ==
    /\ report = "No pending requests"
    /\ tpc = "scan"
    /\ requestCounter >= 1

(***************************************************************************)
(* C7: no entry of the registry has its channel closed; a request that a   *)
(* drain has removed is not in the registry, is never put back, and is     *)
(* removed at most once.                                                   *)
(***************************************************************************)
C7_PendingUnfired ==
    /\ [](\A h \in Requests :
            /\ InPending(h) => ~responseChan[h] /\ firedBy[h] = 0 /\ drainedBy[h] = 0
            /\ drainedBy[h] > 0 => ~InPending(h)
            /\ drainCount[h] <= 1)
    /\ [][\A h \in Requests :
            (Registered(h) /\ ~InPending(h)) => ~(h \in Range(pendingRequests'))]_vars

\* One request drained and signalled while another one is pending.
C7_Witness ==
    \E g, h \in Requests :
        /\ drainedBy[g] > 0 /\ responseChan[g] /\ ~InPending(g)
        /\ InPending(h) /\ ~responseChan[h]

(***************************************************************************)
(* C8: once stdin is closed the release loop has ended and stays ended, no *)
(* channel is closed any more and the registry only grows; every request   *)
(* that is pending then or registers later has no signal and no body.      *)
(***************************************************************************)
C8_AfterEOF ==
    /\ [](stdin = "closed" =>
            /\ tpc = "exited"
            /\ \A h \in Requests :
                  (InPending(h) \/ (Registered(h) /\ regClosed[h])) =>
                      /\ InPending(h)
                      /\ ~responseChan[h]
                      /\ body[h] = "none"
                      /\ hpc[h] \notin {"body", "done"})
    /\ [][stdin = "closed" =>
            /\ stdin' = "closed"
            /\ tpc' = "exited"
            /\ responseChan' = responseChan
            /\ Len(pendingRequests') >= Len(pendingRequests)
            /\ SubSeq(pendingRequests', 1, Len(pendingRequests)) = pendingRequests]_vars

\* After the end of input: one request that was pending at closure and one
\* that registered afterwards both sit blocked on their channels.
C8_Witness ==
    /\ stdin = "closed"
    /\ \E g, h \in Requests :
          /\ InPending(g) /\ ~regClosed[g] /\ hpc[g] = "wait"
          /\ InPending(h) /\ regClosed[h] /\ hpc[h] = "wait"

(***************************************************************************)
(* C9: a disconnect changes nothing in the registry: until a drain takes   *)
(* it, the entry of a gone client is in pendingRequests and its handler is *)
(* not past the wait; no such entry outlives a drain that follows its      *)
(* registration; a failed body write ends the handler without a panic; and *)
(* under fair scheduling, after a line has been consumed a state is        *)
(* reached where the loop is back at Scan and every gone client's request  *)
(* registered before the latest drain (those pending when the line was     *)
(* consumed among them) is out of the registry, its handler terminated on  *)
(* a failed write.                                                         *)
(***************************************************************************)
C9_Disconnected ==
    /\ [](\A h \in Requests :
            /\ (~connected[h] /\ Registered(h) /\ drainedBy[h] = 0) =>
                  InPending(h) /\ hpc[h] \notin {"body", "done"}
            /\ (~connected[h] /\ Registered(h) /\ regDrains[h] < drains) =>
                  ~InPending(h) /\ drainedBy[h] = regDrains[h] + 1
            /\ body[h] = "failed" => hpc[h] = "done" /\ ~connected[h] /\ ~panicked)
    /\ [][(\E h \in Requests : connected[h] /\ ~connected'[h]) =>
            /\ pendingRequests' = pendingRequests
            /\ requestCounter' = requestCounter
            /\ responseChan' = responseChan
            /\ hpc' = hpc]_vars
    /\ (tpc = "lock")
          ~> (/\ tpc \in {"scan", "exited"}
              /\ \A h \in Requests :
                    (Registered(h) /\ regDrains[h] < drains /\ ~connected[h]) =>
                        hpc[h] = "done" /\ body[h] = "failed" /\ ~InPending(h))

\* The client left while its request was held; the next release drained
\* the entry and the handler ended on a failed write.
C9_Witness ==
    \E h \in Requests :
        /\ body[h] = "failed" /\ hpc[h] = "done"
        /\ drainedBy[h] > 0 /\ ~InPending(h)

(***************************************************************************)
(* C10 as stated: every entry of the registry has its headers written and  *)
(* flushed.                                                                *)
(***************************************************************************)
C10_Original ==
    \A h \in Requests : InPending(h) => headers[h] = "flushed"

(***************************************************************************)
(* C10, amended: every entry of the registry whose handler has reached its *)
(* wait on the signal has its headers written and flushed; headers are     *)
(* written only for a request that has been registered.                    *)
(***************************************************************************)
C10_WaitingHasHeaders ==
    \A h \in Requests :
        /\ (InPending(h) /\ hpc[h] = "wait") => headers[h] = "flushed"
        /\ headers[h] # "none" => Registered(h)

\* A pending request blocked on its channel, headers out.
C10_Witness ==
    \E h \in Requests : InPending(h) /\ hpc[h] = "wait" /\ headers[h] = "flushed"

(***************************************************************************)
(* C11: the mutex is held exactly inside the registration critical section *)
(* (main.go:73-78) and the drain-swap critical section (main.go:114-118):  *)
(* a handler that writes headers, flushes, waits or writes its body, and   *)
(* a release loop that reads input, prints or closes channels, does not    *)
(* hold it; a held mutex has a holder inside its critical section; and     *)
(* under fair scheduling, whenever a handler or the loop asks for the lock *)
(* a state is reached where nobody is left asking and the lock is free.    *)
(***************************************************************************)
C11_InRegistration(h) == hpc[h] \in {"append", "incr", "readnum", "count", "unlock"}

C11_InDrain == tpc \in {"read", "reset", "unlock"}

C11_WantsLock == tpc = "lock" \/ \E h \in Requests : hpc[h] = "lock"

C11_MutexScope ==
    /\ [](/\ mu \in {-1, 0} \cup Requests
          /\ \A h \in Requests : mu = h <=> C11_InRegistration(h)
          /\ mu = -1 <=> C11_InDrain
          /\ \A h \in Requests :
                hpc[h] \in {"headers", "flush", "wait", "body", "done"} => mu # h
          /\ tpc \in {"scan", "check", "close", "exited"} => mu # -1)
    /\ C11_WantsLock ~> (~C11_WantsLock /\ mu = 0)

\* One handler blocked on its channel while another handler holds the mutex
\* for its registration.
C11_Witness ==
    \E g, h \in Requests : hpc[g] = "wait" /\ ~responseChan[g] /\ mu = h /\ hpc[h] = "incr"

(***************************************************************************)
(* C12: the entries of pendingRequests stand in strictly increasing order  *)
(* of their sequence numbers, which is the order in which the handlers     *)
(* took the registration lock: the only entry that has no number yet is    *)
(* the last one and belongs to the handler holding the mutex.  The batch a *)
(* drain returns has the same order, and every entry of it is numbered.    *)
(***************************************************************************)
C12_Increasing(s) ==
    \A i, j \in 1..Len(s) :
        (i < j /\ s[i] \in Numbered /\ s[j] \in Numbered) =>
            requestNum[s[i]] < requestNum[s[j]]

C12_RegistrationOrder ==
    /\ C12_Increasing(pendingRequests)
    /\ \A i \in 1..Len(pendingRequests) :
          pendingRequests[i] \notin Numbered =>
              i = Len(pendingRequests) /\ mu = pendingRequests[i]
    /\ C12_Increasing(batch)
    /\ tpc \in {"unlock", "check", "close"} => Range(batch) \subseteq Numbered
    /\ tpc = "reset" => batch = pendingRequests

\* The loop closes the channels of a batch of two requests.
C12_Witness ==
    /\ tpc = "close"
    /\ Len(batch) >= 2
    /\ requestNum[batch[1]] = 1 /\ requestNum[batch[2]] = 2

(***************************************************************************)
(* C13 as stated: the loop fires the signal of every drained request       *)
(* first and reports the count released only afterwards: once the report   *)
(* of an iteration is out, every request drained by its line has been      *)
(* signalled.                                                              *)
(***************************************************************************)
C13_Original ==
    report = "Releasing" =>
        \A h \in Requests : drainedBy[h] = lines => responseChan[h]

(***************************************************************************)
(* C13, amended: on a release event with a non-empty batch the loop        *)
(* reports the count first (main.go:125 prints count), when no signal of   *)
(* this line has been fired and count is the number of requests the line   *)
(* drained; every signal is fired after that report; and when the          *)
(* iteration is over the number of signals fired by the line equals the    *)
(* number drained, that is, the count reported.                            *)
(***************************************************************************)
C13_FiredBy(n) == {h \in Requests : firedBy[h] = n}

C13_DrainedBy(n) == {h \in Requests : drainedBy[h] = n}

C13_ReportThenFire ==
    /\ [][(report # "Releasing" /\ report' = "Releasing") =>
            /\ count > 0
            /\ count = Cardinality(C13_DrainedBy(lines))
            /\ C13_FiredBy(lines) = {}
            /\ firedBy' = firedBy]_vars
    /\ [][firedBy' # firedBy => report = "Releasing" /\ report' = "Releasing"]_vars
    /\ []((tpc \in {"scan", "exited"} /\ report = "Releasing") =>
            /\ C13_FiredBy(lines) = C13_DrainedBy(lines)
            /\ C13_FiredBy(lines) # {})

\* An iteration that released two requests is over.
C13_Witness ==
    /\ tpc = "scan"
    /\ report = "Releasing"
    /\ Cardinality(C13_FiredBy(lines)) >= 2

(***************************************************************************)
(* C14 as stated: the pending order is the arrival order: of two entries   *)
(* of pendingRequests the one at the earlier position has a requestTime    *)
(* not later than the other.                                               *)
(***************************************************************************)
C14_Original ==
    \A i, j \in 1..Len(pendingRequests) :
        i < j => requestTime[pendingRequests[i]] <= requestTime[pendingRequests[j]]

(***************************************************************************)
(* C14, amended: the pending order is the order of registration, not of    *)
(* the arrival times: of two entries the one at the earlier position was   *)
(* appended not later than the other; the requestTime of an entry, read    *)
(* before its handler takes the lock, is not later than its own            *)
(* registration, hence not later than the registration of any entry behind *)
(* it; the requestTimes of two entries may stand in either order.          *)
(***************************************************************************)
C14_RegistrationNotArrival ==
    /\ \A i \in 1..Len(pendingRequests) :
          requestTime[pendingRequests[i]] <= regTime[pendingRequests[i]]
    /\ \A i, j \in 1..Len(pendingRequests) :
          i < j => /\ regTime[pendingRequests[i]] <= regTime[pendingRequests[j]]
                   /\ requestTime[pendingRequests[i]] <= regTime[pendingRequests[j]]

\* Two pending entries whose arrival times are against their positions: the
\* handler that arrived later took the lock first.
C14_Witness ==
    /\ Len(pendingRequests) >= 2
    /\ requestTime[pendingRequests[1]] > requestTime[pendingRequests[2]]
    /\ regTime[pendingRequests[1]] < regTime[pendingRequests[2]]

(***************************************************************************)
(* C15: the pending count a handler obtains is the length of the registry  *)
(* at its registration, its own entry (the last one) counted: it is at     *)
(* least 1, at most the handler's sequence number, and equal to the        *)
(* sequence number minus the number of requests that drains had removed    *)
(* before the handler was appended.                                        *)
(***************************************************************************)
C15_Counted == {h \in Requests : hpc[h] \in {"unlock", "headers", "flush", "wait", "body", "done"}}

C15_DrainedBefore(h) == {g \in Requests : drainedBy[g] \in 1..regDrains[h]}

C15_PendingCount ==
    /\ [](\A h \in C15_Counted :
            /\ pendingCount[h] >= 1
            /\ pendingCount[h] <= requestNum[h]
            /\ pendingCount[h] = requestNum[h] - Cardinality(C15_DrainedBefore(h)))
    /\ [][\A h \in Requests :
            (hpc[h] = "count" /\ hpc'[h] = "unlock") =>
                /\ pendingCount'[h] = Len(pendingRequests')
                /\ Len(pendingRequests') >= 1
                /\ pendingRequests'[Len(pendingRequests')] = h]_vars

\* A handler that registered after a drain: its count is below its number.
C15_Witness ==
    \E h \in C15_Counted : pendingCount[h] = 1 /\ requestNum[h] = 2

(***************************************************************************)
(* C16 as stated: the timestamp of the body is not earlier than the time   *)
(* the release event drained the request nor earlier than the request's    *)
(* arrival time, and the logged wait duration is not negative.             *)
(***************************************************************************)
C16_Original ==
    \A h \in Requests :
        hpc[h] = "done" =>
            /\ InstantOf(timestamp[h]) >= drainTime[h]
            /\ InstantOf(timestamp[h]) >= requestTime[h]
            /\ responseTime[h] - requestTime[h] >= 0

(***************************************************************************)
(* C16, amended: the release time a woken handler reads is not earlier     *)
(* than the drain of its request nor than its arrival, so the logged wait  *)
(* duration is not negative; the timestamp of the body is read after that  *)
(* and formatted in whole seconds: it is not earlier than the release      *)
(* time, the drain time and the arrival time truncated to whole seconds,   *)
(* and it is less than one second earlier than the drain itself.           *)
(***************************************************************************)
C16_TimestampInSeconds ==
    \A h \in Requests :
        /\ hpc[h] \in {"body", "done"} =>
              /\ responseTime[h] >= drainTime[h]
              /\ drainTime[h] >= regTime[h]
              /\ regTime[h] >= requestTime[h]
              /\ responseTime[h] - requestTime[h] >= 0
        /\ hpc[h] = "done" =>
              /\ timestamp[h] >= RFC3339(responseTime[h])
              /\ timestamp[h] >= RFC3339(drainTime[h])
              /\ timestamp[h] >= RFC3339(requestTime[h])
              /\ InstantOf(timestamp[h]) + TicksPerSecond > drainTime[h]

\* A body whose timestamp, cut to whole seconds, denotes an instant before
\* the drain of its request.
C16_Witness ==
    \E h \in Requests :
        /\ hpc[h] = "done"
        /\ InstantOf(timestamp[h]) < drainTime[h]
        /\ requestTime[h] < drainTime[h]

(***************************************************************************)
(* C17: no lost wake-up.  A fired signal stays fired; and under fair       *)
(* scheduling, when a release event has fired the signal of a request      *)
(* whose handler has registered but not yet reached its wait, a state is   *)
(* reached where every handler whose signal was fired has flushed its      *)
(* headers, passed the wait and finished: none blocks on a fired signal.   *)
(***************************************************************************)
C17_FiredEarly(h) == firedBy[h] > 0 /\ hpc[h] \in {"headers", "flush"}

C17_NoLostWakeup ==
    /\ [][\A h \in Requests : responseChan[h] => responseChan'[h]]_vars
    /\ [](\A h \in Requests : hpc[h] \in {"body", "done"} => headers[h] = "flushed")
    /\ (\E h \in Requests : C17_FiredEarly(h))
          ~> (\A h \in Requests :
                 firedBy[h] > 0 => hpc[h] = "done" /\ headers[h] = "flushed")

\* The signal of a request is fired while its handler has written its
\* headers and not yet flushed them.
C17_Witness ==
    \E h \in Requests :
        firedBy[h] > 0 /\ responseChan[h] /\ hpc[h] = "flush" /\ headers[h] = "written"

(***************************************************************************)
(* C18: conservation.  Whenever the mutex is free, requestCounter is the   *)
(* length of pendingRequests plus the number of requests all drains have   *)
(* removed so far; a registered request is either once in pendingRequests  *)
(* or removed once by a drain, never both and never neither; a request     *)
(* that has not registered is in neither.                                  *)
(***************************************************************************)
RECURSIVE C18_Sum(_, _)
C18_Sum(f, S) ==
    IF S = {} THEN 0
    ELSE LET x == CHOOSE y \in S : TRUE IN f[x] + C18_Sum(f, S \ {x})

C18_TotalDrained == C18_Sum(drainCount, Requests)

C18_Conservation ==
    /\ mu = 0 => requestCounter = Len(pendingRequests) + C18_TotalDrained
    /\ \A h \in Requests :
          Occurrences(pendingRequests, h) + drainCount[h]
              = IF Registered(h) THEN 1 ELSE 0

\* The mutex is free, one request has been drained and another is pending.
C18_Witness ==
    /\ mu = 0
    /\ Len(pendingRequests) >= 1
    /\ C18_TotalDrained >= 1

(***************************************************************************)
(* C19: the release batches cut the sequence numbers into consecutive      *)
(* ranges: the numbers of the requests drained by line n are the range     *)
(* that starts right after the numbers drained by all earlier lines (at 1  *)
(* for the first non-empty batch) and has the size of the batch; and in a  *)
(* batch the signals are fired in increasing order of sequence number: a   *)
(* fired request has every lower-numbered request of its batch fired.      *)
(***************************************************************************)
C19_Batch(n) == {h \in Requests : drainedBy[h] = n}

C19_Numbers(n) == {requestNum[h] : h \in C19_Batch(n)}

C19_Before(n) == Cardinality({h \in Requests : drainedBy[h] \in 1..(n - 1)})

C19_ContiguousBatches ==
    /\ \A n \in 1..lines :
          C19_Numbers(n) = (C19_Before(n) + 1)..(C19_Before(n) + Cardinality(C19_Batch(n)))
    /\ \A g, h \in Requests :
          (/\ drainedBy[h] > 0
           /\ drainedBy[g] = drainedBy[h]
           /\ requestNum[g] < requestNum[h]
           /\ responseChan[h]) => responseChan[g]

\* Two non-empty batches, released by two lines, both fired.
C19_Witness ==
    \E g, h \in Requests :
        /\ drainedBy[g] = 1 /\ requestNum[g] = 1 /\ responseChan[g]
        /\ drainedBy[h] = 2 /\ requestNum[h] = 2 /\ responseChan[h]

====
